---- MODULE Spec2Model ----
(***************************************************************************)
(* Model of uiautomator2/image.py: the two-tier image wait of ImageX       *)
(* (ImageX.match, ImageX.__wait, ImageX.wait, ImageX.click) driven by a    *)
(* device (screenshot, click), a template matcher (findit) and the wall    *)
(* clock (time.time, time.sleep).                                          *)
(*                                                                         *)
(* Units.  Time is counted in settle delays: one unit is the 0.1 s of      *)
(* time.sleep(.1).  Similarities are counted in tenths: 8 is 0.8, 9 is     *)
(* 0.9, 10 is 1.0; -1 and 11 are values outside [0,1] that the code has no *)
(* check against.                                                          *)
(*                                                                         *)
(* One behaviour of Spec is one call of ImageX.wait or ImageX.click.  The   *)
(* clock may advance between any two statements (Tick); it never goes      *)
(* back.  One behaviour of LibSpec is one call of imread, or of cv2pil     *)
(* followed by pil2cv, on an argument drawn from References.               *)
(*                                                                         *)
(* Strings are sequences of one-character strings, images are sequences    *)
(* of rows of pixels, a pixel is a sequence of 8-bit samples.              *)
(***************************************************************************)
EXTENDS Integers, Sequences, FiniteSets

\* ---------------------------------------------------------------- bounds
MaxTime == 4        \* the clock runs freely up to MaxTime
MaxTimeout == 2     \* the timeouts tried are -1..MaxTimeout
MaxPolls == 4       \* poll cycles (calls of match) per call of wait
MaxFrags == 3       \* fragments a reference string is put together from

\* ------------------------------------------------------ program constants
LowThreshold == 8       \* wait: threshold=0.8 of the first tier
HighThreshold == 9      \* wait: threshold=0.9 of the second tier
SettleDelay == 1        \* __wait: time.sleep(.1)

\* ----------------------------------------------------------- input sets
\* Similarities the matcher may report (result['target_sim']).
Sims == {-1, 0, 7, 8, 9, 10, 11}
\* Points the matcher may report (result['target_point']).
Points == {<<1, 2>>, <<2, 1>>}
\* Values the device's click may return.
ClickReturns == {"true", "false"}
Timeouts == (-1)..MaxTimeout

\* Python's None, and a value that is not None.
None == <<>>
Some(v) == <<v>>

\* ------------------------------------------------------------ strings
\* 'data:image/', the prefix imread tests with startswith.
DataImage == <<"d", "a", "t", "a", ":", "i", "m", "a", "g", "e", "/">>
\* 'base64,', the marker _open_data_url looks for.
Base64Marker == <<"b", "a", "s", "e", "6", "4", ",">>
\* The two prefixes the pattern r'^https?://' matches.
HttpScheme == <<"h", "t", "t", "p", ":", "/", "/">>
HttpsScheme == <<"h", "t", "t", "p", "s", ":", "/", "/">>
\* len('base64,') and the 20 of data[:20].
MarkerLen == 7
HeadLen == 20

\* The fragments reference strings are put together from, and the strings.
Frags == {DataImage, Base64Marker, HttpScheme, HttpsScheme,
          <<"p", "n", "g", ";">>, <<"x">>}
RECURSIVE Concats(_)
Concats(n) ==
    IF n = 0 THEN {<<>>}
    ELSE LET P == Concats(n - 1) IN P \cup {p \o f : p \in P, f \in Frags}
Texts == Concats(MaxFrags)

Min(S) == CHOOSE i \in S : \A j \in S : i <= j

\* str.startswith(p)
startswith(s, p) == Len(s) >= Len(p) /\ SubSeq(s, 1, Len(p)) = p

\* str.find(p): the index (from 0) of the first occurrence of p, or -1.
find(s, p) ==
    LET I == {i \in 1..(Len(s) - Len(p) + 1) : SubSeq(s, i, i + Len(p) - 1) = p}
    IN  IF I = {} THEN -1 ELSE Min(I) - 1

\* s[pos:] and s[:n] for pos, n >= 0.
SliceFrom(s, pos) == SubSeq(s, pos + 1, Len(s))
SliceTo(s, n) == SubSeq(s, 1, IF n < Len(s) THEN n ELSE Len(s))

\* re.match(r'^https?://', s)
MatchesHttp(s) == startswith(s, HttpScheme) \/ startswith(s, HttpsScheme)

\* ------------------------------------------------------------- pixels
\* 8-bit samples, pixels of one and of three channels, and small images.
Samples == {0, 255}
Pixels3 == {<<a, b, c>> : a \in Samples, b \in Samples, c \in Samples}
Pixels1 == {<<a>> : a \in Samples}
Images(P) ==
    {<<<<p>>>> : p \in P}
        \cup {<<<<p, q>>>> : p \in P, q \in P}
        \cup {<<<<p>>, <<q>>>> : p \in P, q \in P}

\* A channel reversal that rotates the channels instead.
RotateChannels(px) == [i \in 1..Len(px) |-> px[(i % Len(px)) + 1]]

\* The slice [::-1] along the channel axis of one pixel.
ReverseChannels(px) == [i \in 1..Len(px) |-> px[Len(px) + 1 - i]]

\* image[:, :, ::-1].copy(): a new array, every pixel's channels reversed.
ReversedCopy(im) ==
    [r \in 1..Len(im) |-> [c \in 1..Len(im[r]) |-> ReverseChannels(im[r][c])]]

\* pil_image.convert('RGB'): a new image; an 'L' image gets its one sample
\* in each of the three channels.
ConvertRGB(img) ==
    [mode |-> "RGB",
     px |-> IF img.mode = "RGB" THEN img.px
            ELSE [r \in 1..Len(img.px) |->
                    [c \in 1..Len(img.px[r]) |->
                        <<img.px[r][c][1], img.px[r][c][1], img.px[r][c][1]>>]]]

\* pil2cv: convert to RGB, np.array, reverse the channels into a new array.
pil2cv(pil_image) ==
    [mode |-> "BGR", px |-> ReversedCopy(ConvertRGB(pil_image).px)]

\* cv2pil: Image.fromarray of the channel-reversed copy.
cv2pil(cv_image) ==
    [mode |-> "RGB", px |-> ReversedCopy(cv_image.px)]

\* --------------------------------------------------------- references
\* What wait, click and imread are handed: an np.ndarray, a PIL image or a
\* string.
ArrayRefs == {[type |-> "ndarray", mode |-> "BGR", px |-> b, text |-> <<>>] :
                b \in Images(Pixels3)}
PilRefs ==
    {[type |-> "pil", mode |-> "RGB", px |-> b, text |-> <<>>] :
        b \in Images(Pixels3)}
    \cup {[type |-> "pil", mode |-> "L", px |-> b, text |-> <<>>] :
            b \in Images(Pixels1)}
StrRefs == {[type |-> "str", mode |-> "", px |-> <<>>, text |-> t] :
              t \in Texts}
References == ArrayRefs \cup PilRefs \cup StrRefs

\* What the world does when imread calls out: whether the string names a
\* regular file, whether requests.get returns, whether the bytes read are an
\* image cv2 can decode, and whether base64 still has decodestring (it was
\* removed in Python 3.9).
Envs == [isfile : BOOLEAN, fetch : {"content", "raise"}, decodable : BOOLEAN,
         py : {"py38", "py39"}]

\* ------------------------------------------------------------ imread
\* What a call did: returned an image (value is its pixels when they are
\* known), returned None, or raised exc with text as its argument.  via
\* names the branch of imread that was taken.
Returned(via, value) ==
    [kind |-> "image", via |-> via, exc |-> "", text |-> <<>>, value |-> value]
ReturnedNone(via) ==
    [kind |-> "none", via |-> via, exc |-> "", text |-> <<>>, value |-> <<>>]
Raised(via, exc, text) ==
    [kind |-> "raise", via |-> via, exc |-> exc, text |-> text, value |-> <<>>]
NoOutcome ==
    [kind |-> "", via |-> "", exc |-> "", text |-> <<>>, value |-> <<>>]

\* cv2.imdecode(image, flag): the decoded image, or None for bytes that are
\* no image.
imdecode(via, e) ==
    IF e.decodable THEN Returned(via, <<>>) ELSE ReturnedNone(via)

\* An _open_data_url without the test for a missing marker: -1 + 7 is the
\* index the payload is then cut at.
_open_data_url_unchecked(data, e) ==
    LET pos == find(data, Base64Marker)
    IN  IF e.py = "py38"
        THEN Raised("data_url", "TypeError", SliceFrom(data, pos + MarkerLen))
        ELSE Raised("data_url", "AttributeError", <<>>)

\* _open_data_url.  base64.decodestring is handed a str: Python 3 takes
\* bytes-like objects only and raises TypeError, and from 3.9 on base64 has
\* no decodestring at all; text records the payload the call was given.
_open_data_url(data, e) ==
    LET pos == find(data, Base64Marker)
    IN  IF pos = -1
        THEN Raised("data_url", "IOError", SliceTo(data, HeadLen))
        ELSE IF e.py = "py38"
             THEN Raised("data_url", "TypeError",
                         SliceFrom(data, pos + MarkerLen))
             ELSE Raised("data_url", "AttributeError", <<>>)

\* _open_image_url: requests.get(url).content, then cv2.imdecode.
_open_image_url(url, e) ==
    IF e.fetch = "raise"
    THEN Raised("url", "RequestException", <<>>)
    ELSE imdecode("url", e)

\* An imread that tries the file system before the prefixes.
imread_file_first(data, e) ==
    IF data.type = "ndarray" THEN Returned("ndarray", data.px)
    ELSE IF data.type = "pil" THEN Returned("pil", pil2cv(data).px)
    ELSE IF e.isfile
         THEN IF e.decodable
              THEN Returned("file", <<>>)
              ELSE Raised("file", "IOError", data.text)
    ELSE IF startswith(data.text, DataImage) THEN _open_data_url(data.text, e)
    ELSE IF MatchesHttp(data.text) THEN _open_image_url(data.text, e)
    ELSE Raised("invalid", "IOError", data.text)

\* imread(data) in the world e.
imread(data, e) ==
    IF data.type = "ndarray" THEN Returned("ndarray", data.px)
    ELSE IF data.type = "pil" THEN Returned("pil", pil2cv(data).px)
    ELSE IF startswith(data.text, DataImage) THEN _open_data_url(data.text, e)
    ELSE IF MatchesHttp(data.text) THEN _open_image_url(data.text, e)
    ELSE IF e.isfile
         THEN IF e.decodable
              THEN Returned("file", <<>>)
              ELSE Raised("file", "IOError", data.text)
         ELSE Raised("invalid", "IOError", data.text)

\* The template references wait and click are tried with: a decoded buffer,
\* an http URL, a data URL without 'base64,' and a plain file name.
ImageRefs ==
    {[type |-> "ndarray", mode |-> "BGR", px |-> <<<<<<0, 0, 255>>>>>>,
      text |-> <<>>],
     [type |-> "str", mode |-> "", px |-> <<>>,
      text |-> HttpScheme \o <<"x">>],
     [type |-> "str", mode |-> "", px |-> <<>>,
      text |-> DataImage \o <<"p", "n", "g", ";">>],
     [type |-> "str", mode |-> "", px |-> <<>>, text |-> <<"x">>]}

VARIABLES
    pc,         \* position of the call: "deadline", "test", "imread",
                \* "screenshot", "find", "compare", "sleep", "click", "done"
    op,         \* the method the caller invoked: "wait" or "click"
    imdata,     \* the template reference argument
    timeout,    \* the timeout argument
    now,        \* the clock (what time.time() returns when read)
    tier,       \* which __wait call of wait is running: 1 or 2
    deadline,   \* __wait's local deadline
    m,          \* __wait's local m: None or Some(match result)
    res,        \* wait's return value (click's local res)
    ret,        \* the value returned to the caller by click ("" before)
    err,        \* the exception raised to the caller ("" when none)
    clicks,     \* the calls the device's click received: <<[point, r]>>
    polls,      \* calls of match (poll cycles started)
    decodes,    \* calls of imread
    captures,   \* calls of the device's screenshot
    sleeps,     \* calls of time.sleep(.1)
    tests,      \* evaluations of the loop test in the running __wait call
    lastRead,   \* the clock reading of the latest loop test
    captureFailed,\* a call of the device's screenshot raised
    lateCapture,\* a screenshot was taken with the clock past the deadline
    entryExpired,\* some tier's first loop test already read a clock at or
                \* past that tier's deadline
    firstDeadline,\* the deadline the first __wait call computed
    allLow,     \* every similarity reported so far is below 0.8
    allHigh,    \* every similarity reported so far is at least 0.9
    isfile,     \* os.path.isfile(imdata): the state of the file system
    lpc,        \* position of a library call: "start", "read", "pil", "cv"
    out,        \* what the imread call did (NoOutcome before)
    heap        \* the pixel buffers and images alive, in order of creation

vars == <<pc, op, imdata, timeout, now, tier, deadline, m, res, ret, err,
          clicks, polls, decodes, captures, sleeps, tests, lastRead,
          captureFailed, lateCapture, entryExpired, firstDeadline, allLow,
          allHigh, isfile, lpc, out, heap>>

\* What each group of actions leaves alone.
args == <<op, imdata, timeout>>
counters == <<polls, decodes, captures, sleeps, tests>>
history == <<lastRead, captureFailed, lateCapture, entryExpired, allLow, allHigh>>
lib == <<isfile, lpc, out, heap>>

\* The state right after the caller invoked ImageX(d).wait(imdata, timeout)
\* or ImageX(d).click(imdata, timeout): wait is about to call __wait with
\* threshold=0.8.
Init ==
    /\ pc = "deadline"
    /\ op \in {"wait", "click"}
    /\ imdata \in ImageRefs
    /\ timeout \in Timeouts
    /\ now = 0
    /\ tier = 1
    /\ deadline = 0
    /\ m = None
    /\ res = None
    /\ ret = ""
    /\ err = ""
    /\ clicks = <<>>
    /\ polls = 0 /\ decodes = 0 /\ captures = 0 /\ sleeps = 0 /\ tests = 0
    /\ lastRead = 0
    /\ captureFailed = FALSE
    /\ lateCapture = FALSE
    /\ entryExpired = FALSE
    /\ firstDeadline = 0
    /\ allLow = TRUE
    /\ allHigh = TRUE
    /\ isfile \in BOOLEAN
    /\ lpc = "start"
    /\ out = NoOutcome
    /\ heap = <<>>

\* The threshold wait passes to the __wait call of each tier.
threshold == IF tier = 1 THEN LowThreshold ELSE HighThreshold

\* An exception no frame of ImageX handles: it reaches the caller.
Raise(e) ==
    /\ pc' = "done"
    /\ err' = e

\* The clock advances while the call runs.  Readings beyond MaxTime are
\* followed only as far as the deadline in force, where the loop test turns.
Tick ==
    /\ pc # "done"
    /\ now < MaxTime \/ now < deadline
    /\ now' = now + 1
    /\ UNCHANGED <<pc, args, lib, firstDeadline,
                   tier, deadline, m, res, ret, err, clicks,
                   counters, history>>

\* ------------------------------------------------------------- device
\* self._d.click(x, y): the device receives the call and returns a value,
\* or raises.
DeviceClick(x, y) ==
    \/ \E r \in ClickReturns :
          /\ clicks' = Append(clicks, [point |-> <<x, y>>, r |-> r])
          /\ ret' = r
          /\ pc' = "done"
          /\ err' = err
    \/ /\ clicks' = Append(clicks, [point |-> <<x, y>>, r |-> "raised"])
       /\ ret' = ret
       /\ Raise("ClickError")

\* A send_click that passes the coordinates in the wrong order.
send_click_swapped(x, y) == DeviceClick(y, x)

\* ImageX.send_click
send_click(x, y) == DeviceClick(x, y)

\* ------------------------------------------------------------- __wait
\* A loop test that does not look at the deadline.
LoopTestUnbounded(t, d) == TRUE

\* A loop test that still admits a poll cycle at the deadline itself.
LoopTestInclusive(t, d) == t <= d

\* The loop test of __wait: time.time() < deadline, on the clock reading t.
LoopTest(t, d) == t < d

\* A comparison that lets a similarity one tenth under the threshold pass.
QualifiesLoose(sim, th) == ~(sim < th - 1)

\* A comparison that rejects a similarity equal to the threshold.
QualifiesStrict(sim, th) == sim > th

\* The negation of "if sim < threshold: continue".
Qualifies(sim, th) == ~(sim < th)

\* wait returns v to its caller: to the user, or to click.
WaitReturns(v) ==
    /\ res' = v
    /\ pc' = IF op = "click" THEN "click" ELSE "done"
    /\ tier' = tier

\* A wait that returns what the first __wait call found.
WaitTierOneOnly(v) == WaitReturns(v)

\* wait, given the value v the running __wait call returned: a first tier
\* that found something is followed by the second __wait call; any other
\* value is what wait returns.
Wait(v) ==
    IF tier = 1 /\ v # None
    THEN /\ tier' = 2
         /\ pc' = "deadline"
         /\ res' = res
    ELSE WaitReturns(v)

\* A second tier that keeps polling against the first tier's deadline.
WaitDeadlineShared ==
    /\ pc = "deadline"
    /\ deadline' = IF tier = 1 THEN now + timeout ELSE deadline
    /\ m' = None
    /\ tests' = 0
    /\ pc' = "test"
    /\ firstDeadline' = IF tier = 1 THEN deadline' ELSE firstDeadline
    /\ UNCHANGED <<args, lib, now, tier, res, ret, err, clicks, polls,
                   decodes, captures, sleeps, history>>

\* deadline = time.time() + timeout, on entry of each __wait call.
WaitDeadline ==
    /\ pc = "deadline"
    /\ deadline' = now + timeout
    /\ m' = None
    /\ tests' = 0
    /\ pc' = "test"
    /\ firstDeadline' = IF tier = 1 THEN deadline' ELSE firstDeadline
    /\ UNCHANGED <<args, lib, now, tier, res, ret, err, clicks, polls,
                   decodes, captures, sleeps, history>>

\* while time.time() < deadline: the test holds and a poll cycle starts.
WaitLoopEnter ==
    /\ pc = "test"
    /\ LoopTest(now, deadline)
    /\ polls < MaxPolls
    /\ lastRead' = now
    /\ tests' = tests + 1
    /\ polls' = polls + 1
    /\ pc' = "imread"
    /\ UNCHANGED <<args, lib, firstDeadline,
                   now, tier, deadline, m, res, ret, err, clicks,
                   decodes, captures, sleeps, captureFailed, lateCapture,
                   entryExpired, allLow, allHigh>>

\* while time.time() < deadline: the test fails, the loop ends and __wait
\* returns None by falling off its end.
WaitLoopExit ==
    /\ pc = "test"
    /\ ~LoopTest(now, deadline)
    /\ lastRead' = now
    /\ tests' = tests + 1
    /\ entryExpired' = (entryExpired \/ tests = 0)
    /\ Wait(None)
    /\ UNCHANGED <<args, lib, firstDeadline,
                   now, deadline, m, ret, err, clicks, polls, decodes,
                   captures, sleeps, captureFailed, lateCapture, allLow,
                   allHigh>>

\* ------------------------------------------------------------- match
\* fi.load_template("template", pic_object=None): findit asserts that it
\* was given a path or an object.
LoadTemplateNone == Raise("AssertionError")

\* cvimage = imread(imdata), the first statement of match, in the world of
\* this poll cycle; then the template is loaded.
MatchImread ==
    /\ pc = "imread"
    /\ decodes' = decodes + 1
    /\ \E e \in Envs :
          /\ e.isfile = isfile
          /\ LET o == imread(imdata, e)
             IN  CASE o.kind = "image" -> pc' = "screenshot" /\ err' = err
                   [] o.kind = "none" -> LoadTemplateNone
                   [] OTHER -> Raise(o.exc)
    /\ UNCHANGED <<args, lib, firstDeadline,
                   now, tier, deadline, m, res, ret, clicks, polls,
                   captures, sleeps, tests, history>>

\* A poll loop that swallows the capture error and polls again.
ScreenshotFailsRetried ==
    /\ pc' = "test"
    /\ err' = err

\* The device's screenshot raised: nothing in match, __wait, wait or click
\* catches it.
ScreenshotFails == Raise("CaptureError")

\* target = self._d.screenshot(format='opencv')
MatchScreenshot ==
    /\ pc = "screenshot"
    /\ captures' = captures + 1
    /\ lateCapture' = (lateCapture \/ now > deadline)
    /\ \/ pc' = "find" /\ err' = err /\ captureFailed' = captureFailed
       \/ ScreenshotFails /\ captureFailed' = TRUE
    /\ UNCHANGED <<args, lib, firstDeadline,
                   now, tier, deadline, m, res, ret, clicks, polls,
                   decodes, sleeps, tests, lastRead, entryExpired, allLow,
                   allHigh>>

\* raw_result = fi.find(...) and the dict match returns from it: whatever
\* similarity and point the engine reports, unchecked; or the engine raises.
MatchFind ==
    /\ pc = "find"
    /\ \/ \E sim \in Sims, point \in Points :
             /\ m' = Some([similarity |-> sim, point |-> point])
             /\ allLow' = (allLow /\ sim < LowThreshold)
             /\ allHigh' = (allHigh /\ sim >= HighThreshold)
             /\ pc' = "compare"
             /\ err' = err
       \/ /\ Raise("MatchEngineError")
          /\ UNCHANGED <<m, allLow, allHigh>>
    /\ UNCHANGED <<args, lib, firstDeadline,
                   now, tier, deadline, res, ret, clicks, counters,
                   lastRead, captureFailed, lateCapture, entryExpired>>

\* A loop whose continue branch computes the deadline again.
WaitCompareRestartsDeadline ==
    /\ pc = "compare"
    /\ pc' = IF Qualifies(m[1].similarity, threshold)
             THEN "sleep" ELSE "deadline"
    /\ UNCHANGED <<args, lib, firstDeadline,
                   now, tier, deadline, m, res, ret, err, clicks,
                   counters, history>>

\* sim = m['similarity']; if sim < threshold: continue
WaitCompare ==
    /\ pc = "compare"
    /\ pc' = IF Qualifies(m[1].similarity, threshold) THEN "sleep" ELSE "test"
    /\ UNCHANGED <<args, lib, firstDeadline,
                   now, tier, deadline, m, res, ret, err, clicks,
                   counters, history>>

\* time.sleep(.1); return m
WaitSettle ==
    /\ pc = "sleep"
    /\ now' = now + SettleDelay
    /\ sleeps' = sleeps + 1
    /\ Wait(m)
    /\ UNCHANGED <<args, lib, firstDeadline,
                   deadline, m, ret, err, clicks, polls, decodes,
                   captures, tests, history>>

\* -------------------------------------------------------------- click
\* A click that clicks the origin when nothing was found.
ClickNotFoundAtOrigin == DeviceClick(0, 0)

\* if res is None: raise RuntimeError("image object not found")
ClickNotFound ==
    /\ Raise("RuntimeError")
    /\ UNCHANGED <<clicks, ret>>

\* click, after res = self.wait(imdata, timeout=timeout)
Click ==
    /\ pc = "click"
    /\ IF res = None
       THEN ClickNotFound
       ELSE send_click(res[1].point[1], res[1].point[2])
    /\ UNCHANGED <<args, lib, firstDeadline,
                   now, tier, deadline, m, res, counters, history>>

Next ==
    \/ Tick
    \/ WaitDeadline
    \/ WaitLoopEnter
    \/ WaitLoopExit
    \/ MatchImread
    \/ MatchScreenshot
    \/ MatchFind
    \/ WaitCompare
    \/ WaitSettle
    \/ Click

Spec == Init /\ [][Next]_vars

\* The same call under the scheduling the interpreter and the claim's
\* provisos give: the running call takes its next step (every external
\* call returns or raises), and the clock keeps advancing.
Step ==
    \/ WaitDeadline
    \/ WaitLoopEnter
    \/ WaitLoopExit
    \/ MatchImread
    \/ MatchScreenshot
    \/ MatchFind
    \/ WaitCompare
    \/ WaitSettle
    \/ Click

LiveInit ==
    /\ Init
    /\ ~isfile

LiveSpec == LiveInit /\ [][Next]_vars /\ WF_vars(Step) /\ WF_vars(Tick)

\* ------------------------------------------------- the library functions
\* One call of imread(imdata), or of cv2pil on the buffer imdata followed by
\* pil2cv on its result.  heap[1] is the argument when it is a buffer; no
\* call of ImageX is running.
LibInit ==
    /\ imdata \in References
    /\ isfile \in BOOLEAN
    /\ lpc = "start"
    /\ out = NoOutcome
    /\ heap = IF imdata.type = "ndarray"
              THEN <<[mode |-> imdata.mode, px |-> imdata.px]>>
              ELSE <<>>
    /\ pc = "done" /\ op = "wait" /\ timeout = 0 /\ now = 0 /\ tier = 1
    /\ deadline = 0 /\ m = None /\ res = None /\ ret = "" /\ err = ""
    /\ clicks = <<>>
    /\ polls = 0 /\ decodes = 0 /\ captures = 0 /\ sleeps = 0 /\ tests = 0
    /\ lastRead = 0
    /\ captureFailed = FALSE /\ lateCapture = FALSE /\ entryExpired = FALSE
    /\ firstDeadline = 0
    /\ allLow = TRUE /\ allHigh = TRUE

waitvars == <<pc, op, timeout, now, tier, deadline, m, res, ret, err, clicks,
          counters, history, firstDeadline>>

\* imread(imdata), in some world that agrees with the file system.
LibImread ==
    /\ lpc = "start"
    /\ \E e \in Envs :
          /\ e.isfile = isfile
          /\ out' = imread(imdata, e)
    /\ lpc' = "read"
    /\ UNCHANGED <<waitvars, imdata, isfile, heap>>

\* cv2pil(B) on the buffer B = heap[1]: the image is a new object.
LibCv2pil ==
    /\ lpc = "start"
    /\ imdata.type = "ndarray"
    /\ heap' = Append(heap, cv2pil(heap[1]))
    /\ lpc' = "pil"
    /\ UNCHANGED <<waitvars, imdata, isfile, out>>

\* pil2cv on the image cv2pil returned: the array is a new object.
LibPil2cv ==
    /\ lpc = "pil"
    /\ heap' = Append(heap, pil2cv(heap[2]))
    /\ lpc' = "cv"
    /\ UNCHANGED <<waitvars, imdata, isfile, out>>

LibNext ==
    \/ LibImread
    \/ LibCv2pil
    \/ LibPil2cv

LibSpec == LibInit /\ [][LibNext]_vars

\* ------------------------------------------------------------ claims
\* The positions inside a poll cycle (inside match, or comparing its result).
PollStates == {"imread", "screenshot", "find", "compare"}

\* The exceptions that leave wait from inside match.
MatchErrors == {"IOError", "RequestException", "TypeError",
                "AttributeError", "AssertionError", "CaptureError",
                "MatchEngineError"}

\* wait has returned (a result or None) rather than raised or still running.
WaitReturned == pc \in {"click", "done"} /\ err \notin MatchErrors

\* C1: wait returns None or a match result whose similarity is at least
\* 0.9; a result that only cleared the 0.8 tier is never returned.
C1_WaitReturnsNoneOrHigh ==
    res = None \/ res[1].similarity >= HighThreshold

\* wait returned a result in a call where some poll scored below 0.9.
C1_Witness ==
    /\ pc = "done" /\ op = "wait"
    /\ res # None
    /\ ~allHigh

\* C2: when wait yields a result, click calls the device's click exactly
\* once, with the point of that result, and returns what the device's click
\* returned (or lets its exception through).
C2_ClickOnceAtResult ==
    (op = "click" /\ pc = "done" /\ res # None) =>
        /\ Len(clicks) = 1
        /\ clicks[1].point = res[1].point
        /\ IF clicks[1].r = "raised"
           THEN err = "ClickError" /\ ret = ""
           ELSE err = "" /\ ret = clicks[1].r

\* click returned the device's value after clicking a point with x # y.
C2_Witness ==
    /\ op = "click" /\ pc = "done"
    /\ res # None
    /\ Len(clicks) = 1
    /\ clicks[1].point = <<1, 2>>
    /\ ret = "false"

\* C3: when wait returns None, click does not call the device's click and
\* raises RuntimeError; a click and the not-found error never occur in the
\* same call.
C3_NotFoundNeverClicks ==
    /\ [](clicks # <<>> => res # None /\ err # "RuntimeError")
    /\ [](err = "RuntimeError" => op = "click" /\ res = None /\ ret = "")
    /\ [][(pc = "click" /\ res = None /\ pc' # "click") =>
            (pc' = "done" /\ err' = "RuntimeError" /\ clicks' = <<>>)]_vars

\* click raised the not-found error after a wait that polled and timed out.
C3_Witness ==
    /\ op = "click" /\ pc = "done"
    /\ err = "RuntimeError"
    /\ polls > 0

\* C4: with a timeout of zero or less, wait evaluates the loop test once,
\* starts no poll cycle (no imread, no screenshot, no match, no sleep) and
\* returns None.
C4_NonPositiveTimeout ==
    timeout <= 0 =>
        /\ pc \in {"deadline", "test", "click", "done"}
        /\ tier = 1
        /\ polls = 0 /\ decodes = 0 /\ captures = 0 /\ sleeps = 0
        /\ m = None /\ res = None
        /\ pc \in {"click", "done"} => tests = 1

\* wait returned with timeout 0 after its one loop test.
C4_Witness ==
    /\ timeout = 0
    /\ op = "wait" /\ pc = "done"
    /\ tests = 1
    /\ res = None

\* C5: the deadline of a tier is computed once, when the tier starts; a
\* poll cycle starts only on a clock reading before that deadline; a call
\* sleeps at most twice.
C5_DeadlineRespected ==
    [][/\ deadline' # deadline => pc = "deadline" /\ pc' = "test"
       /\ (pc' = "deadline" /\ pc # "deadline") => tier = 1 /\ tier' = 2
       /\ polls' # polls =>
             /\ polls' = polls + 1
             /\ lastRead' = now
             /\ lastRead' < deadline'
             /\ deadline' = deadline
       /\ pc' \in PollStates => lastRead' < deadline'
       /\ sleeps' <= 2
       /\ sleeps' <= tier']_vars

\* a call that polled several times in the first tier and slept twice.
C5_Witness ==
    /\ pc = "done"
    /\ sleeps = 2
    /\ polls >= 3
    /\ now > deadline

\* C6 as stated: if every score is below 0.8, wait returns None after one
\* tier, and no screenshot is taken once the first tier's deadline has passed.
C6_NoCaptureAfterDeadline ==
    allLow =>
        /\ tier = 1
        /\ ~lateCapture
        /\ WaitReturned => res = None

\* C6 amended: if every score is below 0.8, wait returns None after one
\* tier, without sleeping; the second tier is never entered and every poll
\* cycle was started on a clock reading before the first tier's deadline (a
\* cycle already started may still capture and match after it).
C6_OneTierOnly ==
    allLow =>
        /\ tier = 1
        /\ sleeps = 0
        /\ pc \in PollStates => lastRead < deadline
        /\ WaitReturned => res = None /\ lastRead >= deadline

\* wait returned None after low scores only, one of them on a screenshot
\* taken past the deadline.
C6_Witness ==
    /\ allLow
    /\ op = "wait" /\ pc = "done" /\ err = ""
    /\ polls >= 2
    /\ lateCapture

\* C7 as stated: if timeout > 0 and every score is at least 0.9, wait
\* returns the matcher's result after exactly two poll cycles.
C7_AlwaysFoundInTwoPolls ==
    (timeout > 0 /\ allHigh /\ WaitReturned) =>
        /\ res # None
        /\ res[1].similarity >= HighThreshold
        /\ res = m
        /\ polls = 2

\* C7 amended: the same, provided the clock does not reach a tier's deadline
\* between the computation of that deadline and the tier's first loop test.
C7_FoundInTwoPolls ==
    (timeout > 0 /\ allHigh /\ WaitReturned /\ ~entryExpired) =>
        /\ res # None
        /\ res[1].similarity >= HighThreshold
        /\ res = m
        /\ polls = 2

\* wait returned the second poll's result, whose point differs from the
\* first poll's.
C7_Witness ==
    /\ timeout > 0 /\ allHigh
    /\ op = "wait" /\ pc = "done"
    /\ res # None
    /\ res[1].point = <<2, 1>>
    /\ polls = 2

\* C8: a screenshot that raises ends the call with that error: the call is
\* over, the failed capture was the last one, and nothing was clicked or
\* returned.
C8_CaptureErrorAborts ==
    captureFailed =>
        /\ pc = "done"
        /\ err = "CaptureError"
        /\ captures = polls
        /\ clicks = <<>>
        /\ res = None /\ ret = ""

\* a click call whose second tier hit a failing screenshot.
C8_Witness ==
    /\ captureFailed
    /\ op = "click"
    /\ tier = 2
    /\ captures >= 2

\* C9: a similarity outside [0,1] is never compared against the threshold
\* nor returned by wait.
C9_SimilarityInRange ==
    /\ (pc \in {"compare", "sleep"} => m[1].similarity \in 0..10)
    /\ (res # None => res[1].similarity \in 0..10)

\* C10: one call of wait or click decodes the template reference at most
\* once, however many poll cycles run.
C10_DecodeOnce == decodes <= 1

\* C11: imread takes the first branch whose test matches, in the order
\* decoded buffer, 'data:image/' prefix, http(s):// scheme, existing regular
\* file, whatever later tests would say; a reference matching none of them
\* raises IOError and returns nothing.
C11_FirstMatchWins ==
    lpc = "read" =>
        LET isBuffer == imdata.type \in {"ndarray", "pil"}
            isData == startswith(imdata.text, DataImage)
            isHttp == MatchesHttp(imdata.text)
        IN  /\ isBuffer => out.via = imdata.type /\ out.kind = "image"
            /\ (~isBuffer /\ isData) => out.via = "data_url"
            /\ (~isBuffer /\ ~isData /\ isHttp) => out.via = "url"
            /\ (~isBuffer /\ ~isData /\ ~isHttp /\ isfile) => out.via = "file"
            /\ (~isBuffer /\ ~isData /\ ~isHttp /\ ~isfile) =>
                  out = Raised("invalid", "IOError", imdata.text)

\* a 'data:image/' string that also names an existing file and holds an
\* http scheme further on was read as a data URL.
C11_Witness ==
    /\ lpc = "read"
    /\ imdata.text = DataImage \o HttpScheme \o Base64Marker
    /\ isfile
    /\ out.via = "data_url"

\* C12: a 'data:image/' reference without 'base64,' raises IOError carrying
\* the first 20 characters, before anything is decoded; with the marker, the
\* payload handed to the base64 decoder is what follows its first occurrence.
C12_DataUrlMarker ==
    (lpc = "read" /\ imdata.type = "str"
        /\ startswith(imdata.text, DataImage)) =>
        LET t == imdata.text
            Marks == {i \in 1..(Len(t) - Len(Base64Marker) + 1) :
                        SubSeq(t, i, i + Len(Base64Marker) - 1) = Base64Marker}
        IN  /\ Marks = {} =>
                /\ out.kind = "raise" /\ out.exc = "IOError"
                /\ startswith(t, out.text)
                /\ Len(out.text) = (IF Len(t) < 20 THEN Len(t) ELSE 20)
            /\ Marks # {} => out.kind = "raise" /\ out.exc # "IOError"
            /\ out.exc = "TypeError" =>
                \E i \in Marks :
                    /\ \A j \in Marks : i <= j
                    /\ SubSeq(t, 1, i - 1) \o Base64Marker \o out.text = t

\* a data URL of 23 characters without the marker raised IOError with its
\* first 20.
C12_Witness ==
    /\ lpc = "read"
    /\ imdata.text = DataImage \o HttpsScheme \o <<"p", "n", "g", ";">>
    /\ out.exc = "IOError"
    /\ Len(out.text) = 20

\* C13: imread returns an image or raises; it never returns None.
C13_ImageOrError == lpc = "read" => out.kind \in {"image", "raise"}

\* C14: pil2cv(cv2pil(B)) has the pixels of B, and neither call changed the
\* object it was given.
C14_RoundTrip ==
    /\ lpc \in {"pil", "cv"} =>
          /\ heap[1].px = imdata.px
          /\ heap[2].mode = "RGB"
          /\ \A r \in 1..Len(imdata.px) : \A c \in 1..Len(imdata.px[r]) :
                /\ heap[2].px[r][c][1] = imdata.px[r][c][3]
                /\ heap[2].px[r][c][2] = imdata.px[r][c][2]
                /\ heap[2].px[r][c][3] = imdata.px[r][c][1]
    /\ lpc = "cv" =>
          /\ Len(heap) = 3
          /\ heap[3].px = imdata.px
          /\ heap[3].mode = "BGR"

\* the round trip of a two-pixel buffer whose channels differ.
C14_Witness ==
    /\ lpc = "cv"
    /\ imdata.px = <<<<<<0, 0, 255>>, <<255, 0, 0>>>>>>
    /\ heap[2].px = <<<<<<255, 0, 0>>, <<0, 0, 255>>>>>>

\* C15: every call of wait ends: it returns a result or None (or an
\* external call raised), whatever the scores, when every step is
\* eventually taken and the clock keeps advancing.
C15_WaitEnds == <>(pc = "done")

\* wait returned None after busy-polling on low scores only.
C15_Witness ==
    /\ op = "wait" /\ pc = "done" /\ err = ""
    /\ allLow
    /\ polls >= 3
    /\ sleeps = 0
    /\ res = None

\* C16: the comparison is inclusive: a similarity equal to the tier's
\* threshold (or above it) ends the tier with that result after one settle
\* delay; a similarity below it goes back to the loop test without sleeping.
C16_InclusiveThreshold ==
    [][/\ (pc = "compare" /\ pc' # "compare") =>
            /\ m[1].similarity >= threshold => pc' = "sleep"
            /\ m[1].similarity < threshold => pc' = "test"
            /\ sleeps' = sleeps /\ now' = now /\ m' = m /\ tier' = tier
       /\ (pc = "sleep" /\ pc' # "sleep") =>
            /\ m[1].similarity >= threshold
            /\ sleeps' = sleeps + 1
            /\ now' = now + SettleDelay
            /\ tier = 1 => tier' = 2 /\ pc' = "deadline" /\ res' = None
            /\ tier = 2 => res' = m /\ pc' \in {"click", "done"}]_vars

\* wait returned a result of exactly 0.9 from its second poll; the first
\* poll passed the first tier with exactly 0.8.
C16_Witness ==
    /\ pc = "done" /\ op = "wait"
    /\ res # None
    /\ res[1].similarity = HighThreshold
    /\ polls = 2
    /\ ~allHigh /\ ~allLow

\* C17: each tier polls against its own deadline, the clock reading at the
\* tier's start plus the timeout argument; a poll cycle of the second tier
\* starts whenever the loop test reads a clock before that deadline, also at
\* or after the first tier's deadline, and its qualifying result is returned.
C17_FreshDeadline ==
    [][/\ pc = "deadline" /\ pc' # "deadline" =>
            deadline' = now + timeout /\ pc' = "test"
       /\ timeout' = timeout
       /\ (pc = "test" /\ pc' # "test") =>
            /\ now < deadline => pc' = "imread"
            /\ now >= deadline => res' = None /\ pc' \in {"click", "done"}
       /\ (tier = 2 /\ pc = "compare" /\ m[1].similarity >= HighThreshold
                /\ pc' # "compare") => pc' = "sleep"
       /\ (tier = 2 /\ pc = "sleep" /\ pc' # "sleep") => res' = m]_vars

\* wait returned a score of at least 0.9 from a poll cycle that started at
\* or after the first tier's deadline.
C17_Witness ==
    /\ pc = "done" /\ op = "wait"
    /\ res # None
    /\ tier = 2
    /\ lastRead >= firstDeadline
    /\ lastRead < deadline
    /\ ~allHigh

\* C18: a result wait returns is the m of the second tier's last poll cycle,
\* computed on a screenshot taken after the first tier's sleep; at least two
\* screenshots were scored, and the first tier's result is not returned.
C18_SecondTierResult ==
    /\ [](res # None =>
            /\ tier = 2
            /\ res = m
            /\ captures >= 2 /\ polls >= 2
            /\ sleeps = 2)
    /\ [][/\ res' # res => pc = "sleep" /\ tier = 2 /\ res' = m
          /\ m' # m =>
                \/ pc = "deadline" /\ m' = None
                \/ pc = "find" /\ sleeps = tier - 1 /\ captures >= tier
          /\ captures' # captures =>
                /\ pc = "screenshot"
                /\ captures' = captures + 1
                /\ sleeps = tier - 1]_vars

\* click got the second poll's result although the first poll had scored
\* at least 0.9 too, at another point.
C18_Witness ==
    /\ op = "click" /\ pc = "click"
    /\ allHigh
    /\ polls = 2 /\ captures = 2
    /\ res # None
    /\ res[1].point = <<1, 2>>
    /\ res[1].similarity = 10

\* imread raises IOError for the reference, whatever the network and the
\* decoder do: a data URL without the marker, or a string that is no URL and
\* names no file.
Rejected ==
    \A e \in Envs : e.isfile = isfile =>
        LET o == imread(imdata, e) IN o.kind = "raise" /\ o.exc = "IOError"

\* C19 as stated: for a reference imread rejects, a timeout <= 0 gives 'not
\* found' (RuntimeError from click) without any imread call, and a timeout
\* > 0 gives the IOError of the first poll.
C19_RejectedReference ==
    (Rejected /\ pc \in {"click", "done"}) =>
        IF timeout <= 0
        THEN /\ res = None /\ decodes = 0
             /\ err = IF op = "click" /\ pc = "done" THEN "RuntimeError" ELSE ""
        ELSE /\ err = "IOError"
             /\ polls = 1 /\ decodes = 1 /\ captures = 0

\* C19 amended: with timeout > 0 the IOError is raised on the first poll
\* when the first loop test reads a clock before the deadline; when the
\* clock has reached the deadline by then, no poll runs and the outcome is
\* 'not found' as for timeout <= 0.
C19_RejectedUnlessPolled ==
    (Rejected /\ pc \in {"click", "done"}) =>
        IF timeout <= 0 \/ entryExpired
        THEN /\ res = None /\ decodes = 0
             /\ err = IF op = "click" /\ pc = "done" THEN "RuntimeError" ELSE ""
        ELSE /\ err = "IOError"
             /\ polls = 1 /\ decodes = 1 /\ captures = 0

\* click with timeout 0 on a data URL without the marker raised the
\* not-found error and never called imread.
C19_Witness ==
    /\ Rejected
    /\ startswith(imdata.text, DataImage)
    /\ timeout = 0
    /\ op = "click" /\ pc = "done"
    /\ err = "RuntimeError"
    /\ decodes = 0

====
